---- MODULE Spec2Model ----
(***************************************************************************)
(* Model of the Vinted monitoring bot: the 30 s monitoring loop            *)
(* (bot.py), the subscription and filter tables (database.py), the scan    *)
(* of one search page (vinted_scraper.py), the channel filters (bot.py,     *)
(* apply_filters), the rate limiter (vinted_scraper.py, apply_rate_limit)  *)
(* and the proxy manager (proxy_manager.py).                               *)
(*                                                                         *)
(* Time is counted in whole seconds, the resolution of SQLite's            *)
(* CURRENT_TIMESTAMP.  The host clock is taken to run at UTC, so that      *)
(* datetime.fromtimestamp and datetime.utcnow agree.                       *)
(*                                                                         *)
(* Python text is a sequence of one-character strings.  Words are          *)
(* abbreviated to a few letters: "nike" is <<"n","k">>, "Nike Air" is      *)
(* <<"N","k","A">>, "50" is <<"5","0">>.                                   *)
(***************************************************************************)
EXTENDS Integers, Sequences, FiniteSets, TLC

VARIABLES
    clock,              \* the wall clock, in seconds
    search_urls,        \* table search_urls: row id = position in the sequence
    filters,            \* table filters: channel_id -> rows in insertion order
    pc,                 \* monitor_vinted: "idle" | "scan" | "send"
    monitor_tasks,      \* tasks.loop: the running tasks of monitor_vinted
    searches,           \* monitor_vinted: the rows loaded by this tick
    idx,                \* monitor_vinted: position of the for loop in searches
    last_check,         \* get_new_listings: its last_check argument
    status,             \* get_new_listings: how its request ended
    script,             \* get_new_listings: the script tags of the page
    body,               \* get_new_listings: the items shown on the page
    listings,           \* result of get_new_listings
    filtered_listings,  \* result of apply_filters
    sent,               \* send_listing_embed: every hand-over to the channel
    store_ok,           \* the UPDATE of the search in progress will go through
    failed,             \* history: a search of this tick ended on a failure
    due,                \* history: the listing ids the scan in progress had
                        \* to report
    last_requests,      \* VintedScraper.last_requests: domain -> time recorded
    rate_call,          \* apply_rate_limit: the call in progress
    issued,             \* history: domain -> moment of its last request
    utcnow,             \* the clock the proxy manager reads, in minutes
    proxies,            \* ProxyManager.proxies: the entries, in order of addition
    proxy_health,       \* ProxyManager.proxy_health: url -> position in proxies
    last_health_check,  \* ProxyManager.last_health_check: <<>> is None
    calls,              \* get_proxy: the calls in progress, by caller
    sweep_start,        \* history: when the last health sweep began
    returned            \* the last value a method of the proxy manager returned

\* The state of the rate limiter and of the proxy manager.
limiter == <<last_requests, rate_call, issued>>
pool == <<utcnow, proxies, proxy_health, last_health_check, calls, sweep_start,
          returned>>

\* The state of the bot and its store, the clock apart.
loop == <<search_urls, filters, pc, monitor_tasks, searches, idx, last_check,
          status, script, body, listings, filtered_listings, sent, store_ok,
          failed, due>>

vars == <<clock, search_urls, filters, pc, monitor_tasks, searches, idx,
          last_check, status, script, body, listings, filtered_listings, sent,
          store_ok, failed, due, limiter, pool>>

-----------------------------------------------------------------------------
(* Bounds of the model *)

MaxClock == 1
MaxSearches == 2
MaxItems == 1
MaxLen == 2
MaxRateClock == 4
MaxMinutes == 11
MaxProxies == 4
MaxCount == 5

Channels == {1, 2}

-----------------------------------------------------------------------------
(* Python values *)

\* str.lower() on one character.
LowerChar(c) ==
    CASE c = "N" -> "n"
      [] c = "K" -> "k"
      [] c = "A" -> "a"
      [] c = "D" -> "d"
      [] c = "M" -> "m"
      [] c = "L" -> "l"
      [] c = "X" -> "x"
      [] c = "G" -> "g"
      [] c = "V" -> "v"
      [] OTHER -> c

\* str.lower()
Lower(s) == [k \in 1..Len(s) |-> LowerChar(s[k])]

\* `a in b' on two str: a is a contiguous part of b.
StrIn(a, b) ==
    \E k \in 0..(Len(b) - Len(a)) :
        \A j \in 1..Len(a) : b[k + j] = a[j]

Digits == {"0", "1", "2", "3", "4", "5", "6", "7", "8", "9"}

DigitVal(c) ==
    CASE c = "0" -> 0 [] c = "1" -> 1 [] c = "2" -> 2 [] c = "3" -> 3
      [] c = "4" -> 4 [] c = "5" -> 5 [] c = "6" -> 6 [] c = "7" -> 7
      [] c = "8" -> 8 [] c = "9" -> 9

RECURSIVE DecimalVal(_)
DecimalVal(s) ==
    IF s = <<>> THEN 0
    ELSE 10 * DecimalVal(SubSeq(s, 1, Len(s) - 1)) + DigitVal(s[Len(s)])

\* float(s) on the texts of the model: a run of digits is its value, any
\* other text raises ValueError.
Float(s) ==
    IF s # <<>> /\ \A k \in 1..Len(s) : s[k] \in Digits
    THEN [ok |-> TRUE, v |-> DecimalVal(s)]
    ELSE [ok |-> FALSE, v |-> 0]

\* A dict value that is None, and a key the dict does not have.
None == <<"None">>
Missing == <<"Missing">>

\* dict.get(key, '')
Get(v) == IF v = Missing THEN <<>> ELSE v

-----------------------------------------------------------------------------
(* Listings and filters *)

\* The attributes of the listings the marketplace can show, as the parsers
\* deliver them: price is always a float, brand / size / condition are text,
\* absent, or None (a JSON null in brand_title).
Catalogue == <<
    [price |-> 40, brand |-> <<"N", "k", "A">>, size |-> <<"L">>,
     condition |-> <<"V", "G">>],
    [price |-> 60, brand |-> <<"N", "k">>, size |-> <<"X", "L">>,
     condition |-> <<"G">>],
    [price |-> 50, brand |-> <<"a", "d">>, size |-> <<"m">>,
     condition |-> <<"N">>],
    [price |-> 50, brand |-> Missing, size |-> Missing,
     condition |-> Missing],
    [price |-> 50, brand |-> None, size |-> <<"L">>,
     condition |-> <<"G">>] >>

Attrs(id) == Catalogue[((id - 1) % Len(Catalogue)) + 1]

\* A listing dict, restricted to the keys the pipeline reads.
Listing(id, published_at) ==
    [id |-> id, published_at |-> published_at,
     price |-> Attrs(id).price, brand |-> Attrs(id).brand,
     size |-> Attrs(id).size, condition |-> Attrs(id).condition]

\* Rows of the filters table (filter_type, filter_value).  "seller" is a
\* kind apply_filters has no branch for.
FilterRows == {
    [filter_type |-> "price_min", filter_value |-> <<"5", "0">>],
    [filter_type |-> "price_max", filter_value |-> <<"5", "0">>],
    [filter_type |-> "price_max", filter_value |-> <<"a", "k">>],
    [filter_type |-> "brand", filter_value |-> <<"n", "k">>],
    [filter_type |-> "size", filter_value |-> <<"l">>],
    [filter_type |-> "condition", filter_value |-> <<"g">>],
    [filter_type |-> "seller", filter_value |-> <<"k">>] }

\* All sequences over S of length at most n.
SeqsUpTo(S, n) == UNION {[1..k -> S] : k \in 0..n}

\* Database.get_channel_filters: the rows of the channel, [] when the
\* query raises.
get_channel_filters(tbl, channel_id, db_ok) ==
    IF db_ok THEN tbl[channel_id] ELSE <<>>

\* One pass of the inner loop body of apply_filters: "pass" (no branch set
\* should_include to False), "fail" (should_include = False; break) or
\* "raise" (float() or .lower() raised).
FilterVerdictLe(listing, f) ==
    LET t == f.filter_type
        v == f.filter_value
    IN  CASE t = "price_min" ->
               IF ~Float(v).ok THEN "raise"
               ELSE IF listing.price <= Float(v).v THEN "fail" ELSE "pass"
          [] t = "price_max" ->
               IF ~Float(v).ok THEN "raise"
               ELSE IF listing.price >= Float(v).v THEN "fail" ELSE "pass"
          [] t = "brand" ->
               IF listing.brand = None THEN "raise"
               ELSE IF ~StrIn(Lower(v), Lower(Get(listing.brand)))
                    THEN "fail" ELSE "pass"
          [] t = "size" ->
               IF listing.size = None THEN "raise"
               ELSE IF Lower(v) # Lower(Get(listing.size))
                    THEN "fail" ELSE "pass"
          [] t = "condition" ->
               IF listing.condition = None THEN "raise"
               ELSE IF ~StrIn(Lower(v), Lower(Get(listing.condition)))
                    THEN "fail" ELSE "pass"
          [] OTHER -> "pass"

FilterVerdict(listing, f) ==
    LET t == f.filter_type
        v == f.filter_value
    IN  CASE t = "price_min" ->
               IF ~Float(v).ok THEN "raise"
               ELSE IF listing.price < Float(v).v THEN "fail" ELSE "pass"
          [] t = "price_max" ->
               IF ~Float(v).ok THEN "raise"
               ELSE IF listing.price > Float(v).v THEN "fail" ELSE "pass"
          [] t = "brand" ->
               IF listing.brand = None THEN "raise"
               ELSE IF ~StrIn(Lower(v), Lower(Get(listing.brand)))
                    THEN "fail" ELSE "pass"
          [] t = "size" ->
               IF listing.size = None THEN "raise"
               ELSE IF Lower(v) # Lower(Get(listing.size))
                    THEN "fail" ELSE "pass"
          [] t = "condition" ->
               IF listing.condition = None THEN "raise"
               ELSE IF ~StrIn(Lower(v), Lower(Get(listing.condition)))
                    THEN "fail" ELSE "pass"
          [] OTHER -> "pass"

\* The inner loop of apply_filters over the rows, first to last, leaving at
\* the first row that fails or raises.
RECURSIVE EvalFilters(_, _)
EvalFilters(listing, rows) ==
    IF rows = <<>> THEN "pass"
    ELSE LET r == FilterVerdict(listing, Head(rows))
         IN  IF r = "pass" THEN EvalFilters(listing, Tail(rows)) ELSE r

\* A mutant of apply_filters: an empty filter list filters everything out.
apply_filters_EmptyDrops(ls, rows) ==
    IF rows = <<>> THEN <<>>
    ELSE IF \E k \in 1..Len(ls) : EvalFilters(ls[k], rows) = "raise"
    THEN ls
    ELSE SelectSeq(ls, LAMBDA l : EvalFilters(l, rows) = "pass")

\* VintedBot.apply_filters, given the rows get_channel_filters returned:
\* the listings themselves when there is no row or when anything raised,
\* else the listings every row let pass, in their order.
apply_filters(ls, rows) ==
    IF rows = <<>> THEN ls
    ELSE IF \E k \in 1..Len(ls) : EvalFilters(ls[k], rows) = "raise"
    THEN ls
    ELSE SelectSeq(ls, LAMBDA l : EvalFilters(l, rows) = "pass")

-----------------------------------------------------------------------------
(* The scan of one search page: vinted_scraper.py *)

\* The slice taken by parse_html_listings: item_containers[:20]
HtmlLimit == 20

\* What the page carries in its script tags: no script with the window.App
\* marker, a marker whose JSON does not decode, a decoded object without a
\* 'catalog' key, or a decoded object with one.
Scripts == {"none", "undecodable", "no_catalog", "catalog"}

\* created_at_ts of a raw item: epoch seconds, or absent.
Epoch(t) == [k |-> "epoch", v |-> t]
NoTs == [k |-> "none", v |-> 0]

\* The last_check argument: None, a datetime, or the text of a timestamp.
NoCheck == [type |-> "none", t |-> 0]
DatetimeCheck(t) == [type |-> "datetime", t |-> t]
StrCheck(t) == [type |-> "str", t |-> t]

\* How session.get ends: a response with status 200 and a body, a response
\* with another status, or an exception (timeout, connection refused).
Statuses == {"ok", "non200", "error"}

\* The pages the marketplace can show at time now: at most n items, the
\* k-th with id k, each created at some moment up to now or carrying no
\* timestamp.
Pages(n, now) ==
    UNION {{[k \in 1..m |-> [id |-> k, created_at_ts |-> ts[k]]] :
               ts \in [1..m -> {Epoch(t) : t \in 0..now} \cup {NoTs}]} :
           m \in 0..n}

\* What a request made at time now can bring: a page under status 200, or
\* no page.
Requests(n, now) ==
    {[status |-> "ok", script |-> sc, body |-> page] :
        sc \in Scripts, page \in Pages(n, now)}
    \cup {[status |-> st, script |-> "none", body |-> <<>>] :
            st \in Statuses \ {"ok"}}

\* VintedScraper.parse_datetime: the epoch time as a datetime, utcnow()
\* when there is no timestamp.
parse_datetime(ts, now) == IF ts.k = "epoch" THEN ts.v ELSE now

\* VintedScraper.parse_item_data
parse_item_data(item, now) ==
    Listing(item.id, parse_datetime(item.created_at_ts, now))

\* VintedScraper.parse_html_listings: the first 20 containers, each stamped
\* published_at = utcnow().
parse_html_listings(page, now) ==
    LET first == SubSeq(page, 1, IF Len(page) < HtmlLimit THEN Len(page)
                                 ELSE HtmlLimit)
    IN  [k \in 1..Len(first) |-> Listing(first[k].id, now)]

\* Script tags on which parse_vinted_listings raises: a window.App object
\* whose 'catalog' is null, so that catalog_data.get fails at line 129.
BrokenScripts == {"null_catalog"}

\* Everything get_new_listings can meet at time now: any status, any
\* script tags, any items in the body.
Answers(n, now) ==
    {[status |-> st, script |-> sc, body |-> page] :
        st \in Statuses, sc \in Scripts \cup BrokenScripts,
        page \in Pages(n, now)}

\* VintedScraper.parse_vinted_listings: the embedded catalog when a
\* window.App object decoded and has a 'catalog' key, else the markup; []
\* when the parsing raises (lines 142-144).
parse_vinted_listings(sc, page, now) ==
    IF sc \in BrokenScripts THEN <<>>
    ELSE IF sc = "catalog"
    THEN [k \in 1..Len(page) |-> parse_item_data(page[k], now)]
    ELSE parse_html_listings(page, now)

\* A mutant of get_new_listings: the status of the response is not looked
\* at.
get_new_listings_AnyStatus(st, sc, page, lc, now) ==
    LET parsed == parse_vinted_listings(sc, page, now)
    IN  IF lc.type = "none" THEN parsed
        ELSE IF parsed = <<>> THEN <<>>
        ELSE IF lc.type = "str" THEN <<>>
        ELSE SelectSeq(parsed, LAMBDA l : l.published_at > lc.t)

\* A mutant of get_new_listings: the comparison is >= instead of >.
get_new_listings_Ge(st, sc, page, lc, now) ==
    IF st # "ok" THEN <<>>
    ELSE LET parsed == parse_vinted_listings(sc, page, now)
         IN  IF lc.type = "none" THEN parsed
             ELSE IF parsed = <<>> THEN <<>>
             ELSE IF lc.type = "str" THEN <<>>
             ELSE SelectSeq(parsed, LAMBDA l : l.published_at >= lc.t)

\* VintedScraper.get_new_listings.  An exception of the request and a
\* status other than 200 give [].  With a last_check that is not None the
\* parsed listings are compared with it: datetime > datetime keeps the
\* strictly later ones; datetime > str raises TypeError at the first
\* listing, which the except clause of line 101 turns into [].
get_new_listings(st, sc, page, lc, now) ==
    IF st # "ok" THEN <<>>
    ELSE LET parsed == parse_vinted_listings(sc, page, now)
         IN  IF lc.type = "none" THEN parsed
             ELSE IF parsed = <<>> THEN <<>>
             ELSE IF lc.type = "str" THEN <<>>
             ELSE SelectSeq(parsed, LAMBDA l : l.published_at > lc.t)

-----------------------------------------------------------------------------
(* The store: database.py *)

\* A mutant of add_search_url: last_check starts at the epoch.
add_search_url_Epoch(tbl, channel_id, now) ==
    Append(tbl, [id |-> Len(tbl) + 1, channel_id |-> channel_id,
                 last_check |-> 0, is_active |-> TRUE])

\* Database.add_search_url: last_check DEFAULT CURRENT_TIMESTAMP,
\* is_active DEFAULT 1, id AUTOINCREMENT.
add_search_url(tbl, channel_id, now) ==
    Append(tbl, [id |-> Len(tbl) + 1, channel_id |-> channel_id,
                 last_check |-> now, is_active |-> TRUE])

\* A mutant of remove_search_url: WHERE id = ? alone.
remove_search_url_AnyChannel(tbl, search_id, channel_id) ==
    [k \in 1..Len(tbl) |->
        IF tbl[k].id = search_id
        THEN [tbl[k] EXCEPT !.is_active = FALSE]
        ELSE tbl[k]]

\* Database.remove_search_url, line 138: cursor.rowcount > 0, the UPDATE
\* matched a row (active or not).
remove_search_url_found(tbl, search_id, channel_id) ==
    \E k \in 1..Len(tbl) :
        tbl[k].id = search_id /\ tbl[k].channel_id = channel_id

\* Database.remove_search_url: UPDATE ... SET is_active = 0
\* WHERE id = ? AND channel_id = ?
remove_search_url(tbl, search_id, channel_id) ==
    [k \in 1..Len(tbl) |->
        IF tbl[k].id = search_id /\ tbl[k].channel_id = channel_id
        THEN [tbl[k] EXCEPT !.is_active = FALSE]
        ELSE tbl[k]]

\* dict(row) of a selected row.  The connection is opened without
\* detect_types, so the DATETIME column comes back as the text SQLite
\* stored ('YYYY-MM-DD HH:MM:SS'), a str.
RowDict(row) ==
    [id |-> row.id, channel_id |-> row.channel_id,
     last_check |-> StrCheck(row.last_check)]

IsSortedAsc(rows) ==
    \A j, k \in 1..Len(rows) : j < k => rows[j].last_check.t <= rows[k].last_check.t

\* The orders in which a SELECT may return the rows ids: every order of
\* them without repetition.
Orders(ids) ==
    {o \in [1..Cardinality(ids) -> ids] :
        \A j, k \in 1..Cardinality(ids) : j # k => o[j] # o[k]}

\* A mutant of get_all_active_searches: ORDER BY last_check DESC.
get_all_active_searches_Desc(tbl, db_ok) ==
    IF ~db_ok THEN {<<>>}
    ELSE {rows \in {[k \in 1..Len(o) |-> RowDict(tbl[o[k]])] :
                        o \in Orders({k \in 1..Len(tbl) : tbl[k].is_active})} :
            \A j, k \in 1..Len(rows) :
                j < k => rows[j].last_check.t >= rows[k].last_check.t}

\* Database.get_all_active_searches: the results the query may give,
\* SELECT ... WHERE is_active = 1 ORDER BY last_check ASC (rows with equal
\* last_check in any order), [] when the query raises.
get_all_active_searches(tbl, db_ok) ==
    IF ~db_ok THEN {<<>>}
    ELSE {rows \in {[k \in 1..Len(o) |-> RowDict(tbl[o[k]])] :
                        o \in Orders({k \in 1..Len(tbl) : tbl[k].is_active})} :
            IsSortedAsc(rows)}

\* A mutant of update_search_last_check: the checkpoint is reset.
update_search_last_check_Reset(tbl, search_id, now, db_ok) ==
    [k \in 1..Len(tbl) |->
        IF tbl[k].id = search_id THEN [tbl[k] EXCEPT !.last_check = 0]
        ELSE tbl[k]]

\* A mutant of update_search_last_check: the UPDATE has no WHERE clause.
update_search_last_check_All(tbl, search_id, now, db_ok) ==
    IF ~db_ok THEN tbl
    ELSE [k \in 1..Len(tbl) |-> [tbl[k] EXCEPT !.last_check = now]]

\* A mutant of update_search_last_check: nothing is written.
update_search_last_check_Skip(tbl, search_id, now, db_ok) == tbl

\* Database.update_search_last_check: SET last_check = CURRENT_TIMESTAMP
\* WHERE id = ?; the table is left as it was when the statement raises.
update_search_last_check(tbl, search_id, now, db_ok) ==
    IF ~db_ok THEN tbl
    ELSE [k \in 1..Len(tbl) |->
            IF tbl[k].id = search_id THEN [tbl[k] EXCEPT !.last_check = now]
            ELSE tbl[k]]

-----------------------------------------------------------------------------
(* What a scan has to report, stated apart from the code that computes it *)

SameLetter(x, y) == LowerChar(x) = LowerChar(y)

\* a occurs in b, letter case aside.
OccursIn(a, b) ==
    \E k \in 0..(Len(b) - Len(a)) :
        \A j \in 1..Len(a) : SameLetter(b[k + j], a[j])

\* The text of an attribute; an attribute that is None or absent has none.
Text(v) == IF v = None \/ v = Missing THEN <<>> ELSE v

\* A price row with a numeric bound, or a row of another kind.
WellFormed(row) ==
    row.filter_type \in {"price_min", "price_max"} => Float(row.filter_value).ok

\* The listing satisfies the row (spec 4.4).
Keeps(l, row) ==
    LET v == row.filter_value
    IN  CASE row.filter_type = "price_min" -> l.price >= Float(v).v
          [] row.filter_type = "price_max" -> l.price <= Float(v).v
          [] row.filter_type = "brand" -> OccursIn(v, Text(l.brand))
          [] row.filter_type = "size" ->
               /\ Len(v) = Len(Text(l.size))
               /\ \A j \in 1..Len(v) : SameLetter(v[j], Text(l.size)[j])
          [] row.filter_type = "condition" -> OccursIn(v, Text(l.condition))
          [] OTHER -> TRUE

KeepsAll(l, rows) == \A k \in 1..Len(rows) : Keeps(l, rows[k])

\* The ids of the items of the page published strictly after checkpoint t
\* that satisfy every row.
Due(page, t, rows) ==
    {page[k].id : k \in {j \in 1..Len(page) :
        /\ page[j].created_at_ts.k = "epoch"
        /\ page[j].created_at_ts.v > t
        /\ KeepsAll(Listing(page[j].id, page[j].created_at_ts.v), rows)}}

-----------------------------------------------------------------------------
(* The rate limiter: vinted_scraper.py, apply_rate_limit *)

\* The hosts of the search pages.
Domains == {"www.vinted.fr", "www.vinted.de"}

\* VintedScraper.min_delay, in seconds.
min_delay == 2

\* A Python dict as a function on the keys it holds.
EmptyDict == [k \in {} |-> 0]
Put(dict, key, value) ==
    [k \in DOMAIN dict \cup {key} |-> IF k = key THEN value ELSE dict[k]]

NoRateCall == [pc |-> "idle", domain |-> "", now |-> 0, wake |-> 0]

NoLimiter ==
    /\ last_requests = EmptyDict
    /\ rate_call = NoRateCall
    /\ issued = EmptyDict

\* A mutant of RateDelay: the wait is counted from the latest request to
\* any host.
RateDelayAnyHost(requests, domain, now) ==
    IF \E h \in DOMAIN requests : now - requests[h] < min_delay
    THEN min_delay - (now - requests[CHOOSE h \in DOMAIN requests :
                                        now - requests[h] < min_delay])
    ELSE 0

\* apply_rate_limit, lines 356-361: the seconds to sleep, from the time
\* recorded for the domain.
RateDelay(requests, domain, now) ==
    IF domain \in DOMAIN requests /\ now - requests[domain] < min_delay
    THEN min_delay - (now - requests[domain])
    ELSE 0

\* apply_rate_limit, lines 355-363: get_new_listings comes to the limiter
\* for a page of the domain; now is read once, here, and the call sleeps
\* until now + delay.
apply_rate_limit(domain) ==
    /\ rate_call.pc = "idle"
    /\ rate_call' = [pc |-> "sleep", domain |-> domain, now |-> clock,
                     wake |-> clock + RateDelay(last_requests, domain,
                                                clock)]
    /\ UNCHANGED <<clock, loop, last_requests, issued, pool>>

\* apply_rate_limit, line 365, and get_new_listings, lines 73-80: the sleep
\* is over, the time read before the sleep is recorded for the domain and
\* the request goes out.  The next call comes after the request has ended.
session_get ==
    /\ rate_call.pc = "sleep"
    /\ clock >= rate_call.wake
    /\ last_requests' = Put(last_requests, rate_call.domain, rate_call.now)
    /\ issued' = Put(issued, rate_call.domain, clock)
    /\ rate_call' = NoRateCall
    /\ UNCHANGED <<clock, loop, pool>>

\* One second passes; a sleeping call wakes on time.
RateSecond ==
    /\ clock < MaxRateClock
    /\ rate_call.pc = "sleep" => clock < rate_call.wake
    /\ clock' = clock + 1
    /\ UNCHANGED <<loop, limiter, pool>>

-----------------------------------------------------------------------------
(* The proxy manager: proxy_manager.py *)
(* Its clock is counted in minutes, response times in milliseconds.  Of an *)
(* entry the url, the two counters, the health flag and the response time  *)
(* are kept; the type and the two dates of last use are left out.          *)

\* ProxyManager.health_check_interval: timedelta(minutes=10)
health_check_interval == 10

\* The tasks that may be inside get_proxy at once.
Callers == {1, 2}

SchemeHttp == <<"h", "t", "t", "p", ":", "/", "/">>
SchemeHttps == <<"h", "t", "t", "p", "s", ":", "/", "/">>
SchemeSocks4 == <<"s", "o", "c", "k", "s", "4", ":", "/", "/">>
SchemeSocks5 == <<"s", "o", "c", "k", "s", "5", ":", "/", "/">>

\* is_valid_proxy_url, line 76
valid_prefixes == <<SchemeHttp, SchemeHttps, SchemeSocks4, SchemeSocks5>>

\* str.startswith
startswith(text, prefix) ==
    /\ Len(text) >= Len(prefix)
    /\ SubSeq(text, 1, Len(prefix)) = prefix

\* ProxyManager.is_valid_proxy_url
is_valid_proxy_url(proxy_url) ==
    \E k \in 1..Len(valid_prefixes) : startswith(proxy_url, valid_prefixes[k])

\* Proxy urls an operator may write: four that are well formed, and four
\* that are not: another scheme, a known scheme without "://", a bare host
\* and the known scheme in capitals.
ProxyA == SchemeHttp \o <<"a">>
ProxyB == SchemeSocks5 \o <<"b">>
ProxyC == SchemeHttps \o <<"c">>
ProxyD == SchemeSocks4 \o <<"d">>
GoodUrls == {ProxyA, ProxyB, ProxyC, ProxyD}
BadUrls == {<<"f", "t", "p", ":", "/", "/", "a">>, <<"h", "t", "t", "p", "a">>,
            <<"a">>, <<"H", "T", "T", "P", ":", "/", "/", "a">>}

\* add_proxy, lines 51-60: the entry of a proxy just added.
proxy_info(proxy_url) ==
    [url |-> proxy_url, success_count |-> 0, failure_count |-> 0,
     is_healthy |-> TRUE, response_time |-> <<>>]

\* A mutant of add_proxy: the url is not validated.
add_proxy_Unchecked(ps, ph, proxy_url) ==
    [proxies |-> Append(ps, proxy_info(proxy_url)),
     proxy_health |-> Put(ph, proxy_url, Len(ps) + 1),
     value |-> TRUE]

\* ProxyManager.add_proxy on the list ps and the table ph: the new list, the
\* new table and the value returned.  The table holds references to entries
\* of the list; here it holds their positions.
add_proxy(ps, ph, proxy_url) ==
    IF ~is_valid_proxy_url(proxy_url)
    THEN [proxies |-> ps, proxy_health |-> ph, value |-> FALSE]
    ELSE [proxies |-> Append(ps, proxy_info(proxy_url)),
          proxy_health |-> Put(ph, proxy_url, Len(ps) + 1),
          value |-> TRUE]

\* ProxyManager.load_proxies_from_config: add_proxy for each url of
\* PROXY_LIST, in order.
RECURSIVE load_proxies_from_config(_)
load_proxies_from_config(proxy_urls) ==
    IF proxy_urls = <<>>
    THEN [proxies |-> <<>>, proxy_health |-> EmptyDict, value |-> TRUE]
    ELSE LET before == load_proxies_from_config(
                           SubSeq(proxy_urls, 1, Len(proxy_urls) - 1))
         IN  add_proxy(before.proxies, before.proxy_health,
                       proxy_urls[Len(proxy_urls)])

NoReturn == [call |-> "none", arg |-> <<>>, value |-> None]
NoGetProxy == [pc |-> "idle", now |-> 0, probes |-> {}]
NoSweep == [n |-> 0, t |-> 0]

\* ProxyManager.__init__ with an empty PROXY_LIST.
NoPool ==
    /\ utcnow = 0
    /\ proxies = <<>>
    /\ proxy_health = EmptyDict
    /\ last_health_check = <<>>
    /\ calls = [c \in Callers |-> NoGetProxy]
    /\ sweep_start = NoSweep
    /\ returned = NoReturn

\* Exact fractions n/d, d > 0, for the floats of proxy_score.
Frac(n, d) == [n |-> n, d |-> d]
FracMul(a, b) == Frac(a.n * b.n, a.d * b.d)
FracLess(a, b) == a.n * b.d < b.n * a.d
FracMax(a, b) == IF FracLess(a, b) THEN b ELSE a

\* A mutant of proxy_score: a proxy without attempts gets success rate 0.
proxy_score_Pessimist(proxy) ==
    LET total_requests == proxy.success_count + proxy.failure_count
        success_rate == IF total_requests = 0 THEN Frac(0, 1)
                        ELSE Frac(proxy.success_count, total_requests)
        response_time_factor ==
            IF proxy.response_time = <<>> \/ proxy.response_time[1] = 0
            THEN Frac(1, 1)
            ELSE FracMax(Frac(1, 10),
                         Frac(1000, 1000 + proxy.response_time[1]))
    IN  FracMul(success_rate, response_time_factor)

\* select_best_proxy.proxy_score, lines 114-126.  A response time of None
\* or 0.0 is falsy and leaves the factor at 1.
proxy_score(proxy) ==
    LET total_requests == proxy.success_count + proxy.failure_count
        success_rate == IF total_requests = 0 THEN Frac(1, 1)
                        ELSE Frac(proxy.success_count, total_requests)
        response_time_factor ==
            IF proxy.response_time = <<>> \/ proxy.response_time[1] = 0
            THEN Frac(1, 1)
            ELSE FracMax(Frac(1, 10),
                         Frac(1000, 1000 + proxy.response_time[1]))
    IN  FracMul(success_rate, response_time_factor)

\* select_best_proxy, line 129: sorted(..., key=proxy_score, reverse=True).
\* The sort is stable: entries of equal score keep their order.
sorted_proxies(healthy_proxies) ==
    LET n == Len(healthy_proxies)
        before(j, k) ==
            \/ FracLess(proxy_score(healthy_proxies[k]),
                        proxy_score(healthy_proxies[j]))
            \/ /\ ~FracLess(proxy_score(healthy_proxies[j]),
                            proxy_score(healthy_proxies[k]))
               /\ j < k
        rank(k) == Cardinality({j \in 1..n : before(j, k)}) + 1
    IN  [r \in 1..n |-> healthy_proxies[CHOOSE k \in 1..n : rank(k) = r]]

\* A mutant of select_best_proxy: the draw is from all the healthy entries.
select_best_proxy_All(healthy_proxies) ==
    {healthy_proxies[k] : k \in 1..Len(healthy_proxies)}

\* ProxyManager.select_best_proxy: the entries random.choices can give,
\* the first three of the sorted list, each with a positive weight.
select_best_proxy(healthy_proxies) ==
    LET sorted == sorted_proxies(healthy_proxies)
        top == IF Len(sorted) < 3 THEN Len(sorted) ELSE 3
    IN  {sorted[k] : k \in 1..top}

\* A mutant of get_proxy: the entries are not filtered by their flag.
get_proxy_Unfiltered(ps) ==
    IF ps = <<>> THEN {None}
    ELSE {proxy.url : proxy \in select_best_proxy(ps)}

\* ProxyManager.get_proxy, lines 87-101: the values it can return on the
\* list ps.
get_proxy(ps) ==
    LET healthy_proxies == SelectSeq(ps, LAMBDA proxy : proxy.is_healthy)
    IN  IF healthy_proxies = <<>> THEN {None}
        ELSE {proxy.url : proxy \in select_best_proxy(healthy_proxies)}

\* A mutant of Probed: a failed probe leaves the flag of the entry alone.
ProbedLenient(proxy, ok, response_time) ==
    IF ok
    THEN [proxy EXCEPT !.is_healthy = TRUE,
                       !.response_time = <<response_time>>,
                       !.success_count = @ + 1]
    ELSE [proxy EXCEPT !.failure_count = @ + 1]

\* ProxyManager.check_single_proxy_health, lines 191-210: the entry after
\* its probe ended, with status 200 after response_time ms or otherwise.
Probed(proxy, ok, response_time) ==
    IF ok
    THEN [proxy EXCEPT !.is_healthy = TRUE,
                       !.response_time = <<response_time>>,
                       !.success_count = @ + 1]
    ELSE [proxy EXCEPT !.is_healthy = FALSE, !.failure_count = @ + 1]

\* A mutant of report_proxy_result: the breaker opens one failure earlier.
report_proxy_result_Ge(ps, ph, proxy_url, success, response_time) ==
    IF proxy_url \notin DOMAIN ph THEN ps
    ELSE LET i == ph[proxy_url]
             old == ps[i]
         IN  IF success
             THEN [ps EXCEPT ![i] =
                    [old EXCEPT !.success_count = @ + 1, !.is_healthy = TRUE]]
             ELSE [ps EXCEPT ![i] =
                    [old EXCEPT
                       !.failure_count = @ + 1,
                       !.is_healthy =
                           IF old.failure_count + 1 >= old.success_count + 3
                           THEN FALSE ELSE @]]

\* A mutant of report_proxy_result: a success clears the failures counted
\* before it.
report_proxy_result_Consecutive(ps, ph, proxy_url, success, response_time) ==
    IF proxy_url \notin DOMAIN ph THEN ps
    ELSE LET i == ph[proxy_url]
             old == ps[i]
         IN  IF success
             THEN [ps EXCEPT ![i] =
                    [old EXCEPT !.success_count = @ + 1, !.is_healthy = TRUE,
                                !.failure_count = 0]]
             ELSE [ps EXCEPT ![i] =
                    [old EXCEPT
                       !.failure_count = @ + 1,
                       !.is_healthy =
                           IF old.failure_count + 1 > old.success_count + 3
                           THEN FALSE ELSE @]]

\* ProxyManager.report_proxy_result: the list after the report.  The
\* response times met are multiples of 1024 ms, so the halving is exact.
report_proxy_result(ps, ph, proxy_url, success, response_time) ==
    IF proxy_url \notin DOMAIN ph THEN ps
    ELSE LET i == ph[proxy_url]
             old == ps[i]
             given == response_time # <<>> /\ response_time[1] # 0
             had == old.response_time # <<>> /\ old.response_time[1] # 0
         IN  IF success
             THEN [ps EXCEPT ![i] =
                    [old EXCEPT
                       !.success_count = @ + 1,
                       !.is_healthy = TRUE,
                       !.response_time =
                           IF ~given THEN @
                           ELSE IF had
                           THEN <<(old.response_time[1] + response_time[1])
                                      \div 2>>
                           ELSE response_time]]
             ELSE [ps EXCEPT ![i] =
                    [old EXCEPT
                       !.failure_count = @ + 1,
                       !.is_healthy =
                           IF old.failure_count + 1 > old.success_count + 3
                           THEN FALSE ELSE @]]

\* One minute passes.
Minute ==
    /\ utcnow < MaxMinutes
    /\ utcnow' = utcnow + 1
    /\ returned' = NoReturn
    /\ UNCHANGED <<clock, loop, limiter, proxies, proxy_health,
                   last_health_check, calls, sweep_start>>

\* get_proxy, line 85, with check_proxy_health_if_needed, lines 144-150,
\* for caller c.  The sweep is due when there was none or the last one
\* began more than the interval ago; it creates a probe task for each entry
\* and awaits them.  Without a sweep, and with no entry to probe, nothing
\* is awaited and get_proxy goes on to return.
check_proxy_health_if_needed(c) ==
    /\ calls[c].pc = "idle"
    /\ LET now == utcnow
           needed == \/ last_health_check = <<>>
                     \/ now - last_health_check[1] > health_check_interval
       IN  /\ sweep_start' = IF needed
                             THEN [n |-> sweep_start.n + 1, t |-> now]
                             ELSE sweep_start
           /\ IF needed /\ proxies # <<>>
              THEN /\ calls' = [calls EXCEPT ![c] =
                                  [pc |-> "sweep", now |-> now,
                                   probes |-> 1..Len(proxies)]]
                   /\ returned' = NoReturn
                   /\ UNCHANGED last_health_check
              ELSE /\ last_health_check' = IF needed THEN <<now>>
                                           ELSE last_health_check
                   /\ \E value \in get_proxy(proxies) :
                        returned' = [call |-> "get_proxy", arg |-> <<>>,
                                     value |-> value]
                   /\ UNCHANGED calls
    /\ UNCHANGED <<clock, loop, limiter, utcnow, proxies, proxy_health>>

\* The response times a probe measures, in ms.
ProbeTimes == {1024}

\* check_single_proxy_health: the probe of entry i in the sweep of caller c
\* ends.
check_single_proxy_health(c, i, ok) ==
    /\ calls[c].pc = "sweep"
    /\ i \in calls[c].probes
    /\ \E response_time \in ProbeTimes :
         proxies' = [proxies EXCEPT ![i] = Probed(@, ok, response_time)]
    /\ calls' = [calls EXCEPT ![c].probes = @ \ {i}]
    /\ returned' = [call |-> "check_single_proxy_health",
                    arg |-> [i |-> i, ok |-> ok], value |-> None]
    /\ UNCHANGED <<clock, loop, limiter, utcnow, proxy_health,
                   last_health_check, sweep_start>>

\* check_proxy_health_if_needed, line 151, and get_proxy, lines 87-101, for
\* caller c: the probes have all ended, the time read before the sweep is
\* stored and a proxy is chosen.
get_proxy_return(c) ==
    /\ calls[c].pc = "sweep"
    /\ calls[c].probes = {}
    /\ last_health_check' = <<calls[c].now>>
    /\ \E value \in get_proxy(proxies) :
         returned' = [call |-> "get_proxy", arg |-> <<>>, value |-> value]
    /\ calls' = [calls EXCEPT ![c] = NoGetProxy]
    /\ UNCHANGED <<clock, loop, limiter, utcnow, proxies, proxy_health,
                   sweep_start>>

\* ProxyManager.report_proxy_result called with a url, an outcome and a
\* response time (<<>> is None).
report_proxy_result_call(proxy_url, success, response_time) ==
    /\ proxy_url \in DOMAIN proxy_health =>
          LET old == proxies[proxy_health[proxy_url]]
          IN  IF success THEN old.success_count < MaxCount
              ELSE old.failure_count < MaxCount
    /\ proxies' = report_proxy_result(proxies, proxy_health, proxy_url,
                                      success, response_time)
    /\ returned' = [call |-> "report_proxy_result",
                    arg |-> [proxy_url |-> proxy_url, success |-> success,
                            response_time |-> response_time],
                    value |-> None]
    /\ UNCHANGED <<clock, loop, limiter, utcnow, proxy_health,
                   last_health_check, calls, sweep_start>>

\* ProxyManager.add_proxy called with a url.
add_proxy_call(proxy_url) ==
    /\ Len(proxies) < MaxProxies
    /\ LET after == add_proxy(proxies, proxy_health, proxy_url)
       IN  /\ proxies' = after.proxies
           /\ proxy_health' = after.proxy_health
           /\ returned' = [call |-> "add_proxy", arg |-> proxy_url,
                           value |-> after.value]
    /\ UNCHANGED <<clock, loop, limiter, utcnow, last_health_check, calls,
                   sweep_start>>

\* ProxyManager.remove_proxy on the list ps and the table ph: the list
\* without the entries of the url, the table without the url, the value
\* returned.  The entries kept are the same objects, at new positions.
remove_proxy(ps, ph, proxy_url) ==
    LET gone(i) == Cardinality({j \in 1..i : ps[j].url = proxy_url})
    IN  [proxies |-> SelectSeq(ps, LAMBDA proxy : proxy.url # proxy_url),
         proxy_health |-> [u \in DOMAIN ph \ {proxy_url} |->
                              ph[u] - gone(ph[u])],
         value |-> TRUE]

\* ProxyManager.remove_proxy called with a url.
remove_proxy_call(proxy_url) ==
    /\ LET after == remove_proxy(proxies, proxy_health, proxy_url)
       IN  /\ proxies' = after.proxies
           /\ proxy_health' = after.proxy_health
           /\ returned' = [call |-> "remove_proxy", arg |-> proxy_url,
                           value |-> after.value]
    /\ UNCHANGED <<clock, loop, limiter, utcnow, last_health_check, calls,
                   sweep_start>>

-----------------------------------------------------------------------------
(* The monitoring loop: bot.py *)

\* A mutant of LoopNext: a failed request ends the tick.
LoopNextAbort(outcome, i, n) ==
    IF outcome \in {"non200", "error"} THEN "idle"
    ELSE IF i >= n THEN "idle" ELSE "scan"

\* Where monitor_vinted goes after the body for searches[i] of n, whatever
\* the outcome: to the next search, or out of the for loop.
LoopNext(outcome, i, n) == IF i >= n THEN "idle" ELSE "scan"

\* A mutant of send_listing_embed: a failure of the send is passed on.
send_listing_embed_Raising(ok) == IF ok THEN "returned" ELSE "raised"

\* send_listing_embed, lines 351-368: how the call ends when channel.send
\* and the store go through (ok) and when one of them raises; the
\* exception is caught and logged.
send_listing_embed(ok) == "returned"

\* monitor_vinted, lines 290-291, `for listing in filtered_listings: await
\* send_listing_embed(...)': the hand-overs made, outcomes[k] telling how the
\* send of the k-th listing goes, and whether a call raised, which ends the
\* for loop.
RECURSIVE Deliveries(_, _, _)
Deliveries(search, ls, outcomes) ==
    IF ls = <<>> THEN [log |-> <<>>, raised |-> FALSE]
    ELSE LET entry == [search_id |-> search.id,
                       channel_id |-> search.channel_id,
                       listing_id |-> ls[1].id,
                       delivered |-> outcomes[1]]
         IN  IF send_listing_embed(outcomes[1]) = "raised"
             THEN [log |-> <<entry>>, raised |-> TRUE]
             ELSE LET rest == Deliveries(search, Tail(ls), Tail(outcomes))
                  IN  [log |-> <<entry>> \o rest.log, raised |-> rest.raised]

\* The variables of a call of get_new_listings and apply_filters when no
\* call is in progress.
NoCall ==
    /\ last_check = NoCheck
    /\ status = "none"
    /\ script = "none"
    /\ body = <<>>
    /\ listings = <<>>
    /\ filtered_listings = <<>>

BotInit ==
    /\ clock = 0
    /\ search_urls = <<>>
    /\ filters = [c \in Channels |->
                    IF c = 1 THEN <<>>
                    ELSE <<[filter_type |-> "price_max",
                            filter_value |-> <<"5", "0">>]>>]
    /\ pc = "idle"
    /\ searches = <<>>
    /\ idx = 1
    /\ NoCall
    /\ sent = <<>>
    /\ store_ok = TRUE
    /\ failed = FALSE
    /\ due = {}
    /\ monitor_tasks = 0

\* The state after construction.  In the monitoring loop the rate limiter
\* and the proxy manager only decide when and through what a request goes;
\* they are followed in specifications of their own.
Init == BotInit /\ NoLimiter /\ NoPool

\* One second passes.
Second ==
    /\ clock < MaxClock
    /\ clock' = clock + 1
    /\ UNCHANGED <<limiter, pool, monitor_tasks, search_urls, filters, pc,
                   searches, idx, last_check, status, script, body, listings,
                   filtered_listings, sent, store_ok, failed, due>>

\* The channel the k-th add_search command comes from: the commands come
\* from the two channels in turn.
CommandChannel(k) == ((k - 1) % Cardinality(Channels)) + 1

\* Command add_search in channel c.
add_search(c) ==
    /\ Len(search_urls) < MaxSearches
    /\ c = CommandChannel(Len(search_urls) + 1)
    /\ search_urls' = add_search_url(search_urls, c, clock)
    /\ UNCHANGED <<limiter, pool, monitor_tasks, clock, filters, pc, searches,
                   idx, last_check, status, script, body, listings,
                   filtered_listings, sent, store_ok, failed, due>>

\* Command remove_search <search_id> in channel c.
remove_search(search_id, c) ==
    /\ search_id \in 1..Len(search_urls)
    /\ search_urls' = remove_search_url(search_urls, search_id, c)
    /\ UNCHANGED <<limiter, pool, monitor_tasks, clock, filters, pc, searches,
                   idx, last_check, status, script, body, listings,
                   filtered_listings, sent, store_ok, failed, due>>

\* Command remove_search <search_id> in channel c with its answer: "Search
\* Removed" when the store found the row, "Search Not Found" otherwise.
remove_search_command(search_id, c) ==
    /\ search_urls' = remove_search_url(search_urls, search_id, c)
    /\ returned' = [call |-> "remove_search",
                    arg |-> [search_id |-> search_id, channel_id |-> c],
                    value |-> remove_search_url_found(search_urls,
                                                      search_id, c)]
    /\ UNCHANGED <<limiter, monitor_tasks, clock, filters, pc, searches, idx,
                   last_check, status, script, body, listings,
                   filtered_listings, sent, store_ok, failed, due, utcnow,
                   proxies, proxy_health, last_health_check, calls,
                   sweep_start>>

\* The step out of the body for searches[idx]: on to the next search, or
\* out of the loop and of monitor_vinted.
BodyLeft(outcome) ==
    /\ pc' = LoopNext(outcome, idx, Len(searches))
    /\ IF pc' = "idle"
       THEN searches' = <<>> /\ idx' = 1 /\ failed' = FALSE
       ELSE /\ searches' = searches
            /\ idx' = idx + 1
            /\ failed' = (failed \/ outcome \in {"non200", "error", "store"})

\* A mutant of on_ready: the loop is started at every ready event.
on_ready_Unguarded ==
    /\ monitor_tasks' = monitor_tasks + 1
    /\ UNCHANGED <<limiter, pool, clock, search_urls, filters, pc, searches,
                   idx, last_check, status, script, body, listings,
                   filtered_listings, sent, store_ok, failed, due>>

\* on_ready, lines 57-58: the gateway reports ready, at the first
\* connection and at every later one; monitor_vinted is started unless it
\* is running.
on_ready ==
    /\ monitor_tasks' = IF monitor_tasks = 0 THEN 1 ELSE monitor_tasks
    /\ UNCHANGED <<limiter, pool, clock, search_urls, filters, pc, searches,
                   idx, last_check, status, script, body, listings,
                   filtered_listings, sent, store_ok, failed, due>>

\* A mutant of monitor_vinted_load: the loop fires whether or not the tick
\* before it has ended.
monitor_vinted_load_Overlapping ==
    /\ monitor_tasks > 0
    /\ \E db_ok \in BOOLEAN :
         \E rows \in get_all_active_searches(search_urls, db_ok) :
            /\ searches' = rows
            /\ pc' = IF rows = <<>> THEN "idle" ELSE "scan"
    /\ idx' = 1
    /\ UNCHANGED <<limiter, pool, monitor_tasks, clock, search_urls, filters,
                   last_check, status, script, body, listings,
                   filtered_listings, sent, store_ok, failed, due>>

\* monitor_vinted, lines 267-271: the loop fires and loads the searches.
monitor_vinted_load ==
    /\ monitor_tasks > 0
    /\ pc = "idle"
    /\ \E db_ok \in BOOLEAN :
         \E rows \in get_all_active_searches(search_urls, db_ok) :
            /\ searches' = rows
            /\ pc' = IF rows = <<>> THEN "idle" ELSE "scan"
    /\ idx' = 1
    /\ UNCHANGED <<limiter, pool, monitor_tasks, clock, search_urls, filters,
                   last_check, status, script, body, listings,
                   filtered_listings, sent, store_ok, failed, due>>

\* A mutant of monitor_vinted_skip: the checkpoint of the search is written
\* all the same.
monitor_vinted_skip_Touch ==
    /\ pc = "scan"
    /\ search_urls' = update_search_last_check(search_urls, searches[idx].id,
                                               clock, TRUE)
    /\ BodyLeft("no_channel")
    /\ UNCHANGED <<limiter, pool, monitor_tasks, clock, filters, last_check,
                   status, script, body, listings, filtered_listings, sent,
                   store_ok, due>>

\* monitor_vinted, lines 273-275, for searches[idx]: get_channel gives no
\* channel, continue.
monitor_vinted_skip ==
    /\ pc = "scan"
    /\ BodyLeft("no_channel")
    /\ UNCHANGED <<limiter, pool, monitor_tasks, clock, search_urls, filters,
                   last_check, status, script, body, listings,
                   filtered_listings, sent, store_ok, due>>

\* monitor_vinted, lines 278-287, for search: get_new_listings on what the
\* request rq brings, then apply_filters.
Scanned(search, rq, db_ok) ==
    /\ status' = rq.status
    /\ listings' = get_new_listings(rq.status, rq.script, rq.body,
                                    search.last_check, clock)
    /\ filtered_listings' =
           apply_filters(listings',
               get_channel_filters(filters, search.channel_id, db_ok))
    /\ due' = IF rq.status = "ok"
              THEN Due(rq.body, search.last_check.t,
                       filters[search.channel_id])
              ELSE {}

\* monitor_vinted, lines 273-287, for searches[idx]: the channel resolves;
\* get_new_listings on whatever the request brings, then apply_filters.
\* Of the request only its status is kept.
monitor_vinted_scan ==
    /\ pc = "scan"
    /\ \E rq \in Requests(MaxItems, clock), db_ok \in BOOLEAN :
         Scanned(searches[idx], rq, db_ok)
    /\ store_ok' \in BOOLEAN
    /\ pc' = "send"
    /\ UNCHANGED <<limiter, pool, monitor_tasks, clock, search_urls, filters,
                   searches, idx, last_check, script, body, sent, failed>>

\* The host of the pages of the searches.
SearchDomain == "www.vinted.fr"

\* monitor_vinted, lines 273-287, for searches[idx], as monitor_vinted_scan,
\* with the page of the request and the moment of the request kept.
monitor_vinted_fetch ==
    /\ pc = "scan"
    /\ \E rq \in Requests(MaxItems, clock), db_ok \in BOOLEAN :
         /\ Scanned(searches[idx], rq, db_ok)
         /\ script' = rq.script
         /\ body' = rq.body
    /\ issued' = Put(issued, SearchDomain, clock)
    /\ store_ok' \in BOOLEAN
    /\ pc' = "send"
    /\ UNCHANGED <<last_requests, rate_call, pool, monitor_tasks, clock,
                   search_urls, filters, searches, idx, last_check, sent,
                   failed>>

\* monitor_vinted, lines 289-298, for searches[idx]: every filtered listing
\* is handed to send_listing_embed, then update_search_last_check; an
\* exception out of a send would end the body before the update.
monitor_vinted_send ==
    /\ pc = "send"
    /\ \E outcomes \in [1..Len(filtered_listings) -> BOOLEAN] :
         LET d == Deliveries(searches[idx], filtered_listings, outcomes)
         IN  /\ sent' = sent \o d.log
             /\ search_urls' =
                   IF d.raised THEN search_urls
                   ELSE update_search_last_check(search_urls,
                            searches[idx].id, clock, store_ok)
             /\ BodyLeft(IF d.raised THEN "error"
                         ELSE IF store_ok THEN status ELSE "store")
    /\ status' = "none"
    /\ listings' = <<>>
    /\ filtered_listings' = <<>>
    /\ store_ok' = TRUE
    /\ due' = {}
    /\ UNCHANGED <<limiter, pool, monitor_tasks, clock, filters, last_check,
                   script, body>>

Next ==
    \/ on_ready
    \/ Second
    \/ \E c \in Channels : add_search(c)
    \/ \E c \in Channels, search_id \in 1..MaxSearches : remove_search(search_id, c)
    \/ monitor_vinted_load
    \/ monitor_vinted_skip
    \/ monitor_vinted_scan
    \/ monitor_vinted_send

Spec == Init /\ [][Next]_vars

\* The event loop resumes monitor_vinted whenever what it awaits completes,
\* and every await of the loop body completes: the request has a total
\* timeout of 30 s, the store and the channel answer or raise.
FairSpec ==
    /\ Spec
    /\ WF_vars(monitor_vinted_skip \/ monitor_vinted_scan)
    /\ WF_vars(monitor_vinted_send)

-----------------------------------------------------------------------------
(* The ticks of one search with its pages kept: a search added by the      *)
(* first channel, the loop started, each request remembered with its page  *)
(* and its moment.                                                         *)

TickNext ==
    \/ on_ready
    \/ Second
    \/ add_search(CommandChannel(1))
    \/ monitor_vinted_load
    \/ monitor_vinted_fetch
    \/ monitor_vinted_send

TickSpec == Init /\ [][TickNext]_vars

-----------------------------------------------------------------------------
(* The commands on their own: searches added by the two channels and       *)
(* removed, by id, from either channel.                                    *)

\* The ids remove_search is called with: those of the rows and one more.
SearchIds == 1..(MaxSearches + 1)

CommandNext ==
    \/ Second
    \/ \E c \in Channels : add_search(c)
    \/ \E c \in Channels, search_id \in SearchIds :
          remove_search_command(search_id, c)

CommandSpec == Init /\ [][CommandNext]_vars

-----------------------------------------------------------------------------
(* apply_filters on its own: every list of listings against every list of  *)
(* filter rows of channel 1, the filters query going through or raising.   *)

FilterChannel == CommandChannel(1)

CatalogueListings == {Listing(id, 0) : id \in 1..Len(Catalogue)}

FilterInit ==
    /\ clock = 0
    /\ search_urls = <<>>
    /\ filters \in {[c \in Channels |-> IF c = FilterChannel THEN rows ELSE <<>>] :
                       rows \in SeqsUpTo(FilterRows, MaxLen)}
    /\ pc = "call"
    /\ searches = <<>>
    /\ idx = 1
    /\ last_check = NoCheck
    /\ status = "none"
    /\ script = "none"
    /\ body = <<>>
    /\ listings \in SeqsUpTo(CatalogueListings, MaxLen)
    /\ filtered_listings = <<>>
    /\ sent = <<>>
    /\ store_ok \in BOOLEAN
    /\ failed = FALSE
    /\ due = {}
    /\ monitor_tasks = 0
    /\ NoLimiter
    /\ NoPool

apply_filters_call ==
    /\ pc = "call"
    /\ filtered_listings' =
           apply_filters(listings,
               get_channel_filters(filters, FilterChannel, store_ok))
    /\ pc' = "return"
    /\ UNCHANGED <<limiter, pool, monitor_tasks, clock, search_urls, filters,
                   searches, idx, last_check, status, script, body, listings,
                   sent, store_ok, failed, due>>

FilterNext == apply_filters_call

FilterSpec == FilterInit /\ [][FilterNext]_vars

-----------------------------------------------------------------------------
(* The hand-overs on their own: the body of the loop for one search, at    *)
(* the point where apply_filters has returned, on every list of listings.  *)

SendInit ==
    /\ clock \in 0..MaxClock
    /\ search_urls = add_search_url(<<>>, CommandChannel(1), 0)
    /\ filters = [c \in Channels |-> <<>>]
    /\ pc = "send"
    /\ searches = <<RowDict(search_urls[1])>>
    /\ idx = 1
    /\ last_check = NoCheck
    /\ status = "ok"
    /\ script = "none"
    /\ body = <<>>
    /\ listings \in SeqsUpTo(CatalogueListings, MaxLen)
    /\ filtered_listings = listings
    /\ sent = <<>>
    /\ store_ok \in BOOLEAN
    /\ failed = FALSE
    /\ due = {}
    /\ monitor_tasks = 1
    /\ NoLimiter
    /\ NoPool

SendNext == monitor_vinted_send

SendSpec == SendInit /\ [][SendNext]_vars

-----------------------------------------------------------------------------
(* get_new_listings on its own: every outcome of the request against every *)
(* last_check argument.                                                    *)

LastChecks ==
    {NoCheck} \cup {DatetimeCheck(t) : t \in 0..MaxClock}
              \cup {StrCheck(t) : t \in 0..MaxClock}

ScanInit ==
    /\ clock \in 0..MaxClock
    /\ search_urls = <<>>
    /\ filters = [c \in Channels |-> <<>>]
    /\ pc = "call"
    /\ searches = <<>>
    /\ idx = 1
    /\ last_check \in LastChecks
    /\ \E rq \in Answers(MaxLen, MaxClock + 1) :
          status = rq.status /\ script = rq.script /\ body = rq.body
    /\ listings = <<>>
    /\ filtered_listings = <<>>
    /\ sent = <<>>
    /\ store_ok = TRUE
    /\ failed = FALSE
    /\ due = {}
    /\ monitor_tasks = 0
    /\ NoLimiter
    /\ NoPool

get_new_listings_call ==
    /\ pc = "call"
    /\ listings' = get_new_listings(status, script, body, last_check, clock)
    /\ pc' = "return"
    /\ UNCHANGED <<limiter, pool, monitor_tasks, clock, search_urls, filters,
                   searches, idx, last_check, status, script, body,
                   filtered_listings, sent, store_ok, failed, due>>

ScanNext == get_new_listings_call

ScanSpec == ScanInit /\ [][ScanNext]_vars

-----------------------------------------------------------------------------
(* The rate limiter on its own: get_new_listings is called for one page    *)
(* after another, as monitor_vinted calls it.                              *)

RateNext ==
    \/ RateSecond
    \/ \E domain \in Domains : apply_rate_limit(domain)
    \/ session_get

RateSpec == Init /\ [][RateNext]_vars

-----------------------------------------------------------------------------
(* get_proxy and the health sweep: the manager built from a PROXY_LIST,    *)
(* two tasks calling get_proxy, the minutes passing.                       *)

\* The lists of urls PROXY_LIST may give.
ProxyLists == {<<>>, <<ProxyA>>, <<ProxyA, ProxyB>>}

\* ProxyManager.__init__ on the list proxy_urls.
Loaded(proxy_urls) ==
    /\ utcnow = 0
    /\ proxies = load_proxies_from_config(proxy_urls).proxies
    /\ proxy_health = load_proxies_from_config(proxy_urls).proxy_health
    /\ last_health_check = <<>>
    /\ calls = [c \in Callers |-> NoGetProxy]
    /\ sweep_start = NoSweep
    /\ returned = NoReturn

SweepInit ==
    /\ BotInit
    /\ NoLimiter
    /\ \E proxy_urls \in ProxyLists : Loaded(proxy_urls)

SweepNext ==
    \/ Minute
    \/ \E c \in Callers : check_proxy_health_if_needed(c)
    \/ \E c \in Callers, i \in 1..MaxProxies, ok \in BOOLEAN :
          check_single_proxy_health(c, i, ok)
    \/ \E c \in Callers : get_proxy_return(c)

SweepSpec == SweepInit /\ [][SweepNext]_vars

-----------------------------------------------------------------------------
(* get_new_listings with its proxy: the manager built from a PROXY_LIST,   *)
(* one call of get_new_listings, which asks get_proxy (with the first      *)
(* sweep and its probes) and then makes the request.                       *)

\* What last_check is in these calls.
FetchChecks == {NoCheck, DatetimeCheck(0)}

FetchInit ==
    /\ clock \in 0..MaxClock
    /\ search_urls = <<>>
    /\ filters = [c \in Channels |-> <<>>]
    /\ pc = "call"
    /\ searches = <<>>
    /\ idx = 1
    /\ last_check \in FetchChecks
    /\ \E rq \in Answers(MaxItems, MaxClock + 1) :
          status = rq.status /\ script = rq.script /\ body = rq.body
    /\ listings = <<>>
    /\ filtered_listings = <<>>
    /\ sent = <<>>
    /\ store_ok = TRUE
    /\ failed = FALSE
    /\ due = {}
    /\ monitor_tasks = 0
    /\ NoLimiter
    /\ \E proxy_urls \in ProxyLists : Loaded(proxy_urls)

\* A mutant of session_get_status: without a proxy the request fails.
session_get_status_NeedsProxy(proxy, st) ==
    IF proxy = None THEN {"error"} ELSE {st, "error"}

\* get_new_listings, lines 76-80: what session.get(search_url, proxy=proxy)
\* gives when the site would answer st.  With proxy=None the request goes
\* to the site; through a proxy it can also fail at the proxy.
session_get_status(proxy, st) ==
    IF proxy = None THEN {st} ELSE {st, "error"}

\* get_new_listings, line 73: get_proxy is called, once.
get_new_listings_get_proxy ==
    /\ pc = "call"
    /\ returned.call # "get_proxy"
    /\ check_proxy_health_if_needed(1)

\* get_new_listings, lines 76-103, after get_proxy returned: the request
\* is made through the proxy returned and its answer turned into listings.
get_new_listings_request ==
    /\ pc = "call"
    /\ returned.call = "get_proxy"
    /\ \E seen \in session_get_status(returned.value, status) :
         /\ listings' = get_new_listings(seen, script, body, last_check, clock)
         /\ returned' = [call |-> "session_get",
                         arg |-> [proxy |-> returned.value], value |-> seen]
    /\ pc' = "return"
    /\ UNCHANGED <<limiter, clock, search_urls, filters, monitor_tasks,
                   searches, idx, last_check, status, script, body,
                   filtered_listings, sent, store_ok, failed, due, utcnow,
                   proxies, proxy_health, last_health_check, calls,
                   sweep_start>>

FetchNext ==
    \/ get_new_listings_get_proxy
    \/ \E i \in 1..MaxProxies, ok \in BOOLEAN :
          check_single_proxy_health(1, i, ok)
    \/ get_proxy_return(1)
    \/ get_new_listings_request

FetchSpec == FetchInit /\ [][FetchNext]_vars

-----------------------------------------------------------------------------
(* The sweep over time: one task that may call get_proxy or not.  Time     *)
(* passes, a probe ends (by its timeout at the latest) and the awaiting    *)
(* get_proxy goes on; nothing obliges the task to call get_proxy.          *)

PeriodicNext ==
    \/ Minute
    \/ check_proxy_health_if_needed(1)
    \/ \E i \in 1..MaxProxies, ok \in BOOLEAN :
          check_single_proxy_health(1, i, ok)
    \/ get_proxy_return(1)

PeriodicSpec ==
    /\ SweepInit
    /\ [][PeriodicNext]_vars
    /\ WF_vars(Minute)
    /\ WF_vars(\E i \in 1..MaxProxies, ok \in BOOLEAN :
                  check_single_proxy_health(1, i, ok))
    /\ WF_vars(get_proxy_return(1))

-----------------------------------------------------------------------------
(* The choice of a proxy on its own: get_proxy on every list of entries,   *)
(* a sweep just done.                                                      *)

\* Entries with a history: 10 successes at 0.5 s; 5 successes and 5
\* failures at 1 s; no attempt; 1 success and 1 failure; no attempt and
\* marked unhealthy.
EntryA == [url |-> ProxyA, success_count |-> 10, failure_count |-> 0,
           is_healthy |-> TRUE, response_time |-> <<500>>]
EntryB == [url |-> ProxyB, success_count |-> 5, failure_count |-> 5,
           is_healthy |-> TRUE, response_time |-> <<1000>>]
EntryC == [url |-> ProxyC, success_count |-> 0, failure_count |-> 0,
           is_healthy |-> TRUE, response_time |-> <<>>]
EntryD == [url |-> ProxyD, success_count |-> 1, failure_count |-> 1,
           is_healthy |-> TRUE, response_time |-> <<>>]
EntryE == [url |-> ProxyD, success_count |-> 0, failure_count |-> 0,
           is_healthy |-> FALSE, response_time |-> <<>>]
Entries == {EntryA, EntryB, EntryC, EntryD, EntryE}

\* The table of a list: each url refers to the entry added last under it.
HealthOf(ps) ==
    [u \in {ps[k].url : k \in 1..Len(ps)} |->
        CHOOSE k \in 1..Len(ps) :
            /\ ps[k].url = u
            /\ \A j \in (k + 1)..Len(ps) : ps[j].url # u]

SelectInit ==
    /\ BotInit
    /\ NoLimiter
    /\ utcnow = 0
    /\ proxies \in SeqsUpTo(Entries, MaxProxies)
    /\ proxy_health = HealthOf(proxies)
    /\ last_health_check = <<0>>
    /\ calls = [c \in Callers |-> NoGetProxy]
    /\ sweep_start = [n |-> 1, t |-> 0]
    /\ returned = NoReturn

SelectNext == \E c \in Callers : check_proxy_health_if_needed(c)

SelectSpec == SelectInit /\ [][SelectNext]_vars

-----------------------------------------------------------------------------
(* Reports and probes: the manager built from two urls, one task calling   *)
(* get_proxy, reports coming in for the first url and for an unknown one.  *)

\* What report_proxy_result is called with.
ReportUrls == {ProxyA, ProxyC}
ReportTimes == {<<>>, <<1024>>}

ReportInit ==
    /\ BotInit
    /\ NoLimiter
    /\ Loaded(<<ProxyA, ProxyB>>)

ReportNext ==
    \/ check_proxy_health_if_needed(1)
    \/ \E i \in 1..MaxProxies, ok \in BOOLEAN :
          check_single_proxy_health(1, i, ok)
    \/ get_proxy_return(1)
    \/ \E proxy_url \in ReportUrls, success \in BOOLEAN,
          response_time \in ReportTimes :
          report_proxy_result_call(proxy_url, success, response_time)

ReportSpec == ReportInit /\ [][ReportNext]_vars

-----------------------------------------------------------------------------
(* add_proxy on its own: urls added to a manager built from an empty       *)
(* PROXY_LIST.                                                             *)

AddNext == \E proxy_url \in GoodUrls \cup BadUrls : add_proxy_call(proxy_url)

AddSpec == Init /\ [][AddNext]_vars

-----------------------------------------------------------------------------
(* add_proxy and remove_proxy: urls added to and removed from a manager    *)
(* built from an empty PROXY_LIST.                                         *)

BookNext ==
    \/ \E proxy_url \in GoodUrls \cup BadUrls : add_proxy_call(proxy_url)
    \/ \E proxy_url \in GoodUrls : remove_proxy_call(proxy_url)

BookSpec == Init /\ [][BookNext]_vars

-----------------------------------------------------------------------------
(* Claims *)

\* The number of hand-overs of listing lid for search sid in log.
Count(log, sid, lid) ==
    Cardinality({k \in 1..Len(log) :
                    log[k].search_id = sid /\ log[k].listing_id = lid})

\* The step that ends the body of the loop for searches[idx].
BodyEnds == pc = "send" /\ pc' # "send"

\* C1: a listing found on the page of a search (new since the checkpoint,
\* matching the filters) has been handed to the notifier exactly once when
\* the processing of the search ends, and no listing is ever handed over a
\* second time for the same search.
C1_ExactlyOnce ==
    [][/\ BodyEnds =>
            \A lid \in due : Count(sent', searches[idx].id, lid) = 1
       /\ \A k \in 1..Len(sent') :
            Count(sent', sent'[k].search_id, sent'[k].listing_id) <= 1]_vars

\* C2: when the processing of a search whose channel resolved and whose
\* request succeeded ends, every listing of the page published strictly
\* after the stored checkpoint and satisfying the channel's filters has been
\* handed to the notifier during that processing.
C2_Delivered ==
    [][BodyEnds =>
        \A lid \in due :
            \E k \in (Len(sent) + 1)..Len(sent') :
                /\ sent'[k].search_id = searches[idx].id
                /\ sent'[k].channel_id = searches[idx].channel_id
                /\ sent'[k].listing_id = lid]_vars

\* C3: no step moves the checkpoint of a search backward.
C3_CheckpointMonotone ==
    [][\A k \in 1..Len(search_urls) :
          /\ k <= Len(search_urls')
          /\ search_urls'[k].last_check >= search_urls[k].last_check]_vars

\* C3 witness: later in a tick in which the first search ended on a failure,
\* the checkpoint of that search is past the one it was loaded with.
C3_Witness ==
    /\ failed
    /\ pc = "scan"
    /\ search_urls[searches[1].id].last_check > searches[1].last_check.t

\* C4: when the processing of a search ends (channel resolved), its
\* checkpoint is the current time, whatever the request and the scan gave,
\* provided the store executed the UPDATE.
C4_CheckpointAdvanced ==
    [][BodyEnds /\ store_ok =>
        search_urls'[searches[idx].id].last_check = clock]_vars

\* C4 witness: the request of the search in progress failed, and the step
\* that ends its processing is about to write a later checkpoint.
C4_Witness ==
    /\ pc = "send"
    /\ status \in {"non200", "error"}
    /\ store_ok
    /\ search_urls[searches[idx].id].last_check < clock

\* C5: the loop is left only after the body for the last loaded search;
\* after the body for any other search, whatever its outcome, the body for
\* the next one follows; and a tick that has started comes back to idle.
C5_Isolation ==
    /\ [][(pc # "idle" /\ (pc' # pc \/ idx' # idx)) =>
            /\ pc' = "idle" => idx = Len(searches)
            /\ pc' = "scan" =>
                 /\ idx' = idx + 1
                 /\ idx' <= Len(searches)
                 /\ searches' = searches
            /\ pc' = "send" => (idx' = idx /\ searches' = searches)]_vars
    /\ (pc # "idle") ~> (pc = "idle")

\* C5 witness: a search of the tick ended on a failure and a later search of
\* the same tick is being processed.
C5_Witness ==
    /\ failed
    /\ pc = "send"
    /\ idx > 1

\* C6: the rows a tick loads are rows that are active at that moment, with
\* the checkpoints they have at that moment, in non-decreasing order of
\* checkpoint, and the loop goes through them from the first on, in order.
C6_ActiveOldestFirst ==
    [][/\ (pc = "idle" /\ pc' = "scan") =>
            /\ idx' = 1
            /\ \A k \in 1..Len(searches') :
                 LET id == searches'[k].id
                 IN  /\ id \in 1..Len(search_urls)
                     /\ search_urls[id].is_active
                     /\ searches'[k].last_check.t = search_urls[id].last_check
            /\ \A j, k \in 1..Len(searches') :
                 j < k => searches'[j].last_check.t <= searches'[k].last_check.t
       /\ (pc # "idle" /\ pc' # "idle") =>
            /\ searches' = searches
            /\ idx' \in {idx, idx + 1}]_vars

\* C6 witness: a tick has loaded two searches with different checkpoints,
\* the one added later first.
C6_Witness ==
    /\ pc = "scan"
    /\ idx = 1
    /\ Len(searches) = 2
    /\ searches[1].id > searches[2].id
    /\ searches[1].last_check.t < searches[2].last_check.t

\* The listings get_new_listings parses from the page of its request.
Parsed == parse_vinted_listings(script, body, clock)

\* a is b with some elements left out.
IsSubsequence(a, b) ==
    \E f \in [1..Len(a) -> 1..Len(b)] :
        /\ \A j, k \in 1..Len(a) : j < k => f[j] < f[k]
        /\ \A k \in 1..Len(a) : a[k] = b[f[k]]

C8_Conjunction ==
    (pc = "return" /\ store_ok /\ filters[FilterChannel] # <<>>) =>
        \A k \in 1..Len(listings) :
            (\E j \in 1..Len(filters[FilterChannel]) :
                /\ WellFormed(filters[FilterChannel][j])
                /\ ~Keeps(listings[k], filters[FilterChannel][j]))
            => \A m \in 1..Len(filtered_listings) :
                   filtered_listings[m] # listings[k]

\* C9: with no filter row for the channel, apply_filters returns its input.
C9_EmptyFilterSet ==
    (pc = "return" /\ filters[FilterChannel] = <<>>) =>
        filtered_listings = listings

\* C9 witness: apply_filters has returned for two listings and no row.
C9_Witness ==
    /\ pc = "return"
    /\ filters[FilterChannel] = <<>>
    /\ Len(listings) = 2
    /\ Len(filtered_listings) = 2

\* Every price row has a numeric bound and every attribute is text or absent.
Evaluable ==
    /\ \A j \in 1..Len(filters[FilterChannel]) :
          WellFormed(filters[FilterChannel][j])
    /\ \A k \in 1..Len(listings) :
          /\ listings[k].brand # None
          /\ listings[k].size # None
          /\ listings[k].condition # None

C11_Spacing ==
    [][(rate_call.pc = "sleep" /\ rate_call'.pc = "idle"
            /\ rate_call.domain \in DOMAIN issued)
        => clock - issued[rate_call.domain] >= min_delay]_vars

\* C12: a health sweep begins only when no sweep is in progress and, if
\* there was a sweep before, more than health_check_interval after that one
\* began.
C12_SweepCooldown ==
    [][sweep_start'.n > sweep_start.n =>
        /\ \A c \in Callers : calls[c].pc # "sweep"
        /\ sweep_start.n > 0 =>
              utcnow - sweep_start.t > health_check_interval]_vars

\* C13: get_proxy returns None exactly when no entry is healthy as it
\* returns, and otherwise the url of an entry that is healthy then.
C13_HealthyOrNone ==
    returned.call = "get_proxy" =>
        LET healthy == {i \in 1..Len(proxies) : proxies[i].is_healthy}
        IN  IF healthy = {} THEN returned.value = None
            ELSE \E i \in healthy : proxies[i].url = returned.value

\* C13 witness: both answers, one after a sweep that left one entry of two
\* healthy.
C13_Witness ==
    /\ returned.call = "get_proxy"
    /\ Len(proxies) = 2
    /\ ~proxies[1].is_healthy
    /\ proxies[2].is_healthy
    /\ returned.value = ProxyB

\* The score as the contract states it: successes over attempts, 1 without
\* attempts, times max(0.1, 1/(1 + rt)), 1 without a sample; rt in seconds.
ContractScore(proxy) ==
    LET attempts == proxy.success_count + proxy.failure_count
        rate == IF attempts = 0 THEN Frac(1, 1)
                ELSE Frac(proxy.success_count, attempts)
        factor == IF proxy.response_time = <<>> THEN Frac(1, 1)
                  ELSE LET inverse == Frac(1000, 1000 + proxy.response_time[1])
                       IN  IF FracLess(inverse, Frac(1, 10)) THEN Frac(1, 10)
                           ELSE inverse
    IN  Frac(rate.n * factor.n, rate.d * factor.d)

HealthyEntries == {i \in 1..Len(proxies) : proxies[i].is_healthy}

\* C14: the url get_proxy returns is that of a healthy entry with fewer
\* than three healthy entries scored above it.
C14_TopThree ==
    (returned.call = "get_proxy" /\ returned.value # None) =>
        \E i \in HealthyEntries :
            /\ proxies[i].url = returned.value
            /\ Cardinality({j \in HealthyEntries :
                   FracLess(ContractScore(proxies[i]),
                            ContractScore(proxies[j]))}) < 3

\* C14 witness: four healthy entries of four different scores, and the
\* third best returned.
C14_Witness ==
    /\ returned.call = "get_proxy"
    /\ proxies = <<EntryD, EntryB, EntryA, EntryC>>
    /\ returned.value = ProxyD

\* C15: the sorted list of the healthy entries holds each of them once, in
\* descending order of the contract's score; A, B, C of the example are
\* ranked C, A, B.
C15_Ranking ==
    LET healthy_proxies == SelectSeq(proxies, LAMBDA proxy : proxy.is_healthy)
        ranked == sorted_proxies(healthy_proxies)
    IN  /\ Len(ranked) = Len(healthy_proxies)
        /\ \A e \in Entries :
              Cardinality({k \in 1..Len(ranked) : ranked[k] = e})
                  = Cardinality({k \in 1..Len(healthy_proxies) :
                                    healthy_proxies[k] = e})
        /\ \A k \in 1..(Len(ranked) - 1) :
              ~FracLess(ContractScore(ranked[k]), ContractScore(ranked[k + 1]))
        /\ healthy_proxies = <<EntryA, EntryB, EntryC>> =>
              ranked = <<EntryC, EntryA, EntryB>>

\* C15 witness: the entries of the example, and get_proxy has answered.
C15_Witness ==
    /\ proxies = <<EntryA, EntryB, EntryC>>
    /\ returned.call = "get_proxy"
    /\ returned.value = ProxyC

\* A report of a failure for a tracked url has just been made.
FailureReported ==
    /\ returned'.call = "report_proxy_result"
    /\ ~returned'.arg.success
    /\ returned'.arg.proxy_url \in DOMAIN proxy_health

\* C16: after a report of a failure for a tracked url, its entry is
\* unhealthy when its failures exceed its successes by more than 3, and
\* has the flag it had otherwise.
C16_BreakerOnReport ==
    [][FailureReported =>
        LET i == proxy_health[returned'.arg.proxy_url]
        IN  IF proxies'[i].failure_count > proxies'[i].success_count + 3
            THEN ~proxies'[i].is_healthy
            ELSE proxies'[i].is_healthy = proxies[i].is_healthy]_vars

\* C16 witness: the fourth failure in a row has just been reported for an
\* entry without a success, and the entry is unhealthy.
C16_Witness ==
    /\ returned.call = "report_proxy_result"
    /\ returned.arg.proxy_url = ProxyA
    /\ ~returned.arg.success
    /\ proxies[1].failure_count = 4
    /\ proxies[1].success_count = 0
    /\ ~proxies[1].is_healthy
    /\ calls[1].pc = "idle"
    /\ sweep_start.n = 0

\* C17: no entry whose failures exceed its successes by more than 3 is
\* marked healthy.
C17_BreakerInvariant ==
    \A i \in 1..Len(proxies) :
        proxies[i].failure_count > proxies[i].success_count + 3
            => ~proxies[i].is_healthy

\* The url starts with one of the transport names of the contract.
KnownTransport(proxy_url) ==
    \E name \in {<<"h", "t", "t", "p">>, <<"h", "t", "t", "p", "s">>,
                 <<"s", "o", "c", "k", "s", "4">>,
                 <<"s", "o", "c", "k", "s", "5">>} :
        /\ Len(proxy_url) >= Len(name)
        /\ \A k \in 1..Len(name) : proxy_url[k] = name[k]

\* C18: add_proxy with a url that starts with none of the transport names
\* returns False and leaves the list and the table as they were.
C18_InvalidRejected ==
    [][(returned'.call = "add_proxy" /\ ~KnownTransport(returned'.arg)) =>
        /\ returned'.value = FALSE
        /\ proxies' = proxies
        /\ proxy_health' = proxy_health]_vars

\* C18 witness: a manager with an entry has just refused an ftp url.
C18_Witness ==
    /\ returned.call = "add_proxy"
    /\ returned.arg = <<"f", "t", "p", ":", "/", "/", "a">>
    /\ returned.value = FALSE
    /\ proxies = <<proxy_info(ProxyA)>>

\* C19: add_proxy with a url that is already tracked leaves the list and
\* the table as they were.
C19_DuplicateNoOp ==
    [][(returned'.call = "add_proxy"
            /\ returned'.arg \in DOMAIN proxy_health) =>
        /\ proxies' = proxies
        /\ proxy_health' = proxy_health]_vars

\* C20: get_new_listings returns [] on a status other than 200, on an
\* exception of the request, the limiter or the proxy manager, and on a
\* page whose parsing raises.
C20_ErrorsGiveEmpty ==
    (pc = "return" /\ (status # "ok" \/ script \in BrokenScripts)) =>
        listings = <<>>

\* C20 witness: a response of a status other than 200 whose body carries a
\* catalog with an item, asked for without a last_check, returned as [].
C20_Witness ==
    /\ pc = "return"
    /\ body # <<>>
    /\ last_check = NoCheck
    /\ status = "non200"
    /\ script = "catalog"
    /\ listings = <<>>

\* The script tags that carry a window.App object which decodes as JSON.
Decoded == {"catalog", "no_catalog", "null_catalog"}

\* What the embedded object alone gives: its catalog items when it has a
\* catalog of items, nothing otherwise.
PrimaryOnly ==
    IF script = "catalog"
    THEN [k \in 1..Len(body) |->
             Listing(body[k].id, parse_datetime(body[k].created_at_ts, clock))]
    ELSE <<>>

\* C21: asked without a last_check, a page with status 200 gives the
\* listings of the embedded object alone when an object decoded, and the
\* listings of the markup when none did.
C21_ParsePrecedence ==
    (pc = "return" /\ status = "ok" /\ last_check = NoCheck) =>
        IF script \in Decoded THEN listings = PrimaryOnly
        ELSE listings = [k \in 1..Len(body) |-> Listing(body[k].id, clock)]

\* C23: when apply_rate_limit returns and the request goes out, the time
\* recorded for the host is the time of that moment.
C23_RecordsRelease ==
    [][(rate_call.pc = "sleep" /\ rate_call'.pc = "idle") =>
        last_requests'[rate_call.domain] = clock]_vars

\* C24: a call for a host sleeps only when a request to that same host was
\* recorded less than min_delay ago, and the call changes the recorded
\* time of no other host.
C24_PerHost ==
    [][/\ (rate_call.pc = "idle" /\ rate_call'.pc = "sleep"
              /\ rate_call'.wake > clock) =>
            /\ rate_call'.domain \in DOMAIN last_requests
            /\ clock - last_requests[rate_call'.domain] < min_delay
       /\ \A h \in Domains :
            (rate_call.pc = "idle" \/ h # rate_call.domain) =>
                /\ h \in DOMAIN last_requests' <=> h \in DOMAIN last_requests
                /\ h \in DOMAIN last_requests =>
                      last_requests'[h] = last_requests[h]]_vars

\* C24 witness: a call for one host is let through at once, a request to
\* the other host having been recorded in the same second.
C24_Witness ==
    /\ rate_call.pc = "sleep"
    /\ rate_call.domain = "www.vinted.de"
    /\ rate_call.wake = rate_call.now
    /\ "www.vinted.de" \notin DOMAIN last_requests
    /\ "www.vinted.fr" \in DOMAIN last_requests
    /\ rate_call.now - last_requests["www.vinted.fr"] < min_delay

\* The step is a report for a tracked url.
TrackedReport ==
    /\ returned'.call = "report_proxy_result"
    /\ returned'.arg.proxy_url \in DOMAIN proxy_health

\* The rolling response time after a sample is reported for an entry:
\* the mean of the old and the new when there was an old one, else the new.
Rolling(old, sample) ==
    IF old = <<>> THEN sample ELSE <<(old[1] + sample[1]) \div 2>>

\* C26: a report for a tracked url adds one to the counter of its outcome
\* and leaves the other counter; a response time given with it, on success
\* or on failure, goes into the rolling response time; a report for a url
\* that is not tracked changes no entry.
C26_ReportEffect ==
    [][/\ TrackedReport =>
            LET i == proxy_health[returned'.arg.proxy_url]
                success == returned'.arg.success
                sample == returned'.arg.response_time
            IN  /\ proxies'[i].success_count =
                      proxies[i].success_count + (IF success THEN 1 ELSE 0)
                /\ proxies'[i].failure_count =
                      proxies[i].failure_count + (IF success THEN 0 ELSE 1)
                /\ sample # <<>> =>
                      proxies'[i].response_time =
                          Rolling(proxies[i].response_time, sample)
       /\ (/\ returned'.call = "report_proxy_result"
           /\ returned'.arg.proxy_url \notin DOMAIN proxy_health) =>
                proxies' = proxies]_vars

\* The step ends the probe of entry i in a sweep.
ProbeEnds(i) ==
    /\ returned'.call = "check_single_proxy_health"
    /\ returned'.arg.i = i

\* C27: the end of a probe changes its own entry only: on status 200 the
\* entry is healthy, has one more success and the response time measured;
\* otherwise it is unhealthy and has one more failure.
C27_ProbeOwnEntry ==
    [][\A i \in 1..Len(proxies) :
          ProbeEnds(i) =>
            /\ Len(proxies') = Len(proxies)
            /\ \A j \in 1..Len(proxies) : j # i => proxies'[j] = proxies[j]
            /\ proxies'[i].url = proxies[i].url
            /\ IF returned'.arg.ok
               THEN /\ proxies'[i].is_healthy
                    /\ proxies'[i].success_count = proxies[i].success_count + 1
                    /\ proxies'[i].failure_count = proxies[i].failure_count
                    /\ proxies'[i].response_time # <<>>
                    /\ proxies'[i].response_time[1] \in ProbeTimes
               ELSE /\ ~proxies'[i].is_healthy
                    /\ proxies'[i].failure_count = proxies[i].failure_count + 1
                    /\ proxies'[i].success_count = proxies[i].success_count
      ]_vars

\* C27 witness: of two entries the second failed its probe while the first,
\* probed with success before, kept what that probe gave it.
C27_Witness ==
    /\ Len(proxies) = 2
    /\ returned.call = "check_single_proxy_health"
    /\ returned.arg = [i |-> 2, ok |-> FALSE]
    /\ ~proxies[2].is_healthy
    /\ proxies[2].failure_count = 1
    /\ proxies[1].is_healthy
    /\ proxies[1].success_count = 1
    /\ proxies[1].response_time # <<>>

\* C29: no call of get_proxy is held back while probes are outstanding.
C29_SweepDoesNotBlock ==
    \A c \in Callers : calls[c].pc = "sweep" => calls[c].probes = {}

\* The number of probe results and reports the step applies to entry i.
Applied(i) ==
    (IF ProbeEnds(i) THEN 1 ELSE 0)
        + (IF TrackedReport /\ proxy_health[returned'.arg.proxy_url] = i
           THEN 1 ELSE 0)

\* C30: whatever the order of probe results and reports, each one applied
\* to an entry adds one to the sum of its counters, nothing else changes
\* the sum, and neither counter goes down.
C30_NoLostUpdate ==
    [][\A i \in 1..Len(proxies) :
          /\ proxies'[i].success_count + proxies'[i].failure_count =
                proxies[i].success_count + proxies[i].failure_count
                    + Applied(i)
          /\ proxies'[i].success_count >= proxies[i].success_count
          /\ proxies'[i].failure_count >= proxies[i].failure_count]_vars

\* C30 witness: during a sweep, the first entry probed and the second not
\* yet, a success is reported for the first entry, which had failures.
C30_Witness ==
    /\ calls[1].pc = "sweep"
    /\ calls[1].probes = {2}
    /\ returned.call = "report_proxy_result"
    /\ returned.arg.proxy_url = ProxyA
    /\ returned.arg.success
    /\ proxies[1].failure_count >= 1
    /\ proxies[1].success_count >= 1

\* A sweep is due: there was none yet, or the last one began more than the
\* interval ago.
SweepDue ==
    \/ last_health_check = <<>>
    \/ utcnow - last_health_check[1] > health_check_interval

\* C28: when a sweep is due, a sweep is eventually done, whether get_proxy
\* is called or not.
C28_SweepEventually == SweepDue ~> ~SweepDue

\* The step is the request of get_new_listings.
Fetched == pc = "return" /\ returned.call = "session_get"

\* C22: when get_proxy gave None, the request is made without a proxy and
\* get_new_listings returns what the answer of the site gives: the listings
\* parsed from a page of status 200.
C22_ProxyOptional ==
    (Fetched /\ returned.arg.proxy = None) =>
        /\ returned.value = status
        /\ listings = get_new_listings(status, script, body, last_check, clock)

\* C22 witness: every configured entry failed its probe, get_proxy gave
\* None, and the listing of the page was returned.
C22_Witness ==
    /\ Fetched
    /\ returned.arg.proxy = None
    /\ proxies # <<>>
    /\ \A i \in 1..Len(proxies) : ~proxies[i].is_healthy
    /\ status = "ok"
    /\ listings # <<>>

\* C25: the request made through a proxy adds one to the success or the
\* failure counter of the entry of that proxy.
C25_FetchReported ==
    [][(pc = "call" /\ pc' = "return" /\ returned.value # None) =>
          \E i \in 1..Len(proxies) :
             /\ proxies[i].url = returned.value
             /\ proxies'[i].success_count + proxies'[i].failure_count =
                   proxies[i].success_count + proxies[i].failure_count + 1
      ]_vars

\* The step is one of the loop: it moves monitor_vinted on.
LoopStep == pc # "idle" /\ (pc' # pc \/ idx' # idx)

\* C31: one tick at a time and in it one search at a time: no tick loads
\* its searches while another is in progress, the search in progress is
\* one of the loaded ones, and the loop leaves it only when its hand-overs
\* and the write of its checkpoint are done (or its channel was not found).
C31_SingleLoop ==
    /\ [](pc # "idle" => idx \in 1..Len(searches))
    /\ [][/\ pc # "idle" => (searches' = searches \/ pc' = "idle")
          /\ (pc = "scan" /\ pc' = "send") => idx' = idx
          /\ (pc = "scan" /\ LoopStep /\ pc' # "send") => status = "none"
          /\ (pc = "send" /\ LoopStep) =>
                /\ Len(sent') = Len(sent) + Len(filtered_listings)
                /\ search_urls' =
                      update_search_last_check(search_urls, searches[idx].id,
                                               clock, store_ok)]_vars

\* C31 witness: the second search of a tick is at its hand-overs, the
\* first one having had its checkpoint written.
C31_Witness ==
    /\ pc = "send"
    /\ idx = 2
    /\ ~failed
    /\ search_urls[searches[1].id].last_check > searches[1].last_check.t

\* The step passes over searches[idx], whose channel was not found.
Skipped == pc = "scan" /\ LoopStep /\ pc' # "send"

\* C32: passing over a search whose channel is not found makes no request,
\* hands nothing over, writes no checkpoint, and goes on to the next search
\* of the tick when there is one.
C32_SkipSilently ==
    [][Skipped =>
        /\ status' = "none"
        /\ listings' = <<>>
        /\ limiter' = limiter
        /\ sent' = sent
        /\ search_urls' = search_urls
        /\ idx < Len(searches) =>
              (pc' = "scan" /\ idx' = idx + 1 /\ searches' = searches)]_vars

\* C32 witness: the first search of a tick was passed over a second after
\* it was loaded, its checkpoint is the one it was loaded with, and the
\* second search is up.
C32_Witness ==
    /\ pc = "scan"
    /\ idx = 2
    /\ ~failed
    /\ sent = <<>>
    /\ clock > searches[1].last_check.t
    /\ search_urls[searches[1].id].last_check = searches[1].last_check.t

\* C34: a step of the loop for a search changes in the table at most the
\* checkpoint of that search.
C34_CheckpointOwnership ==
    [][LoopStep =>
        /\ Len(search_urls') = Len(search_urls)
        /\ \A k \in 1..Len(search_urls) :
              /\ search_urls'[k].id = search_urls[k].id
              /\ search_urls'[k].channel_id = search_urls[k].channel_id
              /\ search_urls'[k].is_active = search_urls[k].is_active
              /\ k # searches[idx].id =>
                    search_urls'[k].last_check = search_urls[k].last_check
      ]_vars

\* C34 witness: the checkpoint of the first search of a tick was advanced
\* and that of the second, not yet processed, is the one it was loaded
\* with.
C34_Witness ==
    /\ pc = "scan"
    /\ idx = 2
    /\ search_urls[searches[1].id].last_check > searches[1].last_check.t
    /\ search_urls[searches[2].id].last_check = searches[2].last_check.t

\* C36: a request is made for a search only while the search is active.
C36_NoFetchAfterRemoval ==
    [][(pc = "scan" /\ pc' = "send") =>
          search_urls[searches[idx].id].is_active]_vars

\* C38: at most one task of monitor_vinted runs, and a ready event that
\* comes while it runs starts none.
C38_StartedOnce ==
    /\ [](monitor_tasks <= 1)
    /\ [][monitor_tasks > 0 => monitor_tasks' = monitor_tasks]_vars

\* C38 witness: the loop was started and is in the middle of a tick.
C38_Witness == monitor_tasks = 1 /\ pc = "send" /\ idx = 2

\* The step is a remove_search command for search_id from channel c.
Removing(search_id, c) ==
    /\ returned'.call = "remove_search"
    /\ returned'.arg.search_id = search_id
    /\ returned'.arg.channel_id = c
    /\ clock' = clock
    /\ Len(search_urls') <= Len(search_urls)

\* C39: remove_search from channel c deactivates at most the row of the id
\* given, and only if that row is of channel c; given the id of a row of
\* another channel it answers not found and changes nothing; it deletes no
\* row and changes no checkpoint.
C39_RemoveScoped ==
    [][\A c \in Channels, search_id \in SearchIds :
          Removing(search_id, c) =>
            /\ Len(search_urls') = Len(search_urls)
            /\ \A k \in 1..Len(search_urls) :
                  /\ search_urls'[k].id = search_urls[k].id
                  /\ search_urls'[k].channel_id = search_urls[k].channel_id
                  /\ search_urls'[k].last_check = search_urls[k].last_check
                  /\ search_urls'[k].is_active # search_urls[k].is_active =>
                        /\ k = search_id
                        /\ search_urls[k].channel_id = c
                        /\ ~search_urls'[k].is_active
            /\ (\E k \in 1..Len(search_urls) :
                    k = search_id /\ search_urls[k].channel_id # c) =>
                  (~returned'.value /\ search_urls' = search_urls)
            /\ (\E k \in 1..Len(search_urls) :
                    /\ k = search_id
                    /\ search_urls[k].channel_id = c
                    /\ search_urls[k].is_active) =>
                  (returned'.value /\ ~search_urls'[search_id].is_active)
      ]_vars

\* C39 witness: remove_search for the active search of one channel, called
\* from the other channel, answered not found and the search is active.
C39_Witness ==
    /\ returned.call = "remove_search"
    /\ ~returned.value
    /\ returned.arg.search_id \in 1..Len(search_urls)
    /\ search_urls[returned.arg.search_id].channel_id
          # returned.arg.channel_id
    /\ search_urls[returned.arg.search_id].is_active
    /\ clock > search_urls[returned.arg.search_id].last_check

\* C35: the checkpoint written for a search is not later than the moment
\* of the request whose page it accounts for.
C35_CheckpointNotAfterFetch ==
    [][(BodyEnds /\ store_ok) =>
          search_urls'[searches[idx].id].last_check <= issued[SearchDomain]
      ]_vars

\* C40: a search is added with the moment of its addition as checkpoint,
\* checkpoints do not go back, and every listing handed over for a search
\* is an item of the page published strictly after the checkpoint the
\* search was loaded with.
C40_NothingBeforeCreation ==
    [][/\ Len(search_urls') > Len(search_urls) =>
            /\ search_urls'[Len(search_urls')].last_check = clock
            /\ search_urls'[Len(search_urls')].is_active
       /\ \A k \in 1..Len(search_urls) :
            search_urls'[k].last_check >= search_urls[k].last_check
       /\ BodyEnds =>
            \A k \in (Len(sent) + 1)..Len(sent') :
               \E j \in 1..Len(body) :
                  /\ body[j].id = sent'[k].listing_id
                  /\ body[j].created_at_ts.k = "epoch"
                  /\ body[j].created_at_ts.v > searches[idx].last_check.t
      ]_vars

\* C40 witness: the page fetched for a search, a second after it was added,
\* shows an item published at the moment of the addition, and nothing is
\* to be handed over.
C40_Witness ==
    /\ pc = "send"
    /\ status = "ok"
    /\ script = "catalog"
    /\ clock > searches[idx].last_check.t
    /\ search_urls[searches[idx].id].last_check = searches[idx].last_check.t
    /\ \E j \in 1..Len(body) :
          /\ body[j].created_at_ts.k = "epoch"
          /\ body[j].created_at_ts.v = searches[idx].last_check.t
    /\ filtered_listings = <<>>
    /\ sent = <<>>

\* C33: whatever the sends of the listings give, each listing apply_filters
\* returned is handed to send_listing_embed, in order, and the body goes on
\* to the write of the checkpoint as after sends that all went through.
C33_FireAndForget ==
    [][BodyEnds =>
        /\ Len(sent') = Len(sent) + Len(filtered_listings)
        /\ \A k \in 1..Len(filtered_listings) :
              /\ sent'[Len(sent) + k].listing_id = filtered_listings[k].id
              /\ sent'[Len(sent) + k].search_id = searches[idx].id
              /\ sent'[Len(sent) + k].channel_id = searches[idx].channel_id
        /\ search_urls' =
              update_search_last_check(search_urls, searches[idx].id, clock,
                                       store_ok)]_vars

\* C33 witness: of two listings the send of the first failed, the second
\* was handed over and sent after it, and the checkpoint was written.
C33_Witness ==
    /\ pc = "idle"
    /\ Len(sent) = 2
    /\ ~sent[1].delivered
    /\ sent[2].delivered
    /\ sent[1].listing_id # sent[2].listing_id
    /\ clock > 0
    /\ search_urls[1].last_check = clock

\* C37: the list and the table hold the same entries: the table refers
\* each entry of the list under its url, and each url of the table has one
\* entry in the list.
C37_BookkeepingConsistent ==
    /\ \A i \in 1..Len(proxies) :
          /\ proxies[i].url \in DOMAIN proxy_health
          /\ proxy_health[proxies[i].url] = i
    /\ \A u \in DOMAIN proxy_health :
          Cardinality({i \in 1..Len(proxies) : proxies[i].url = u}) = 1

====
